---------------------------- MODULE Spec2Model ----------------------------
(***************************************************************************)
(* A model of calculator.c: the line reader, the tokenizer, the recursive  *)
(* descent parser, the stack evaluator and the driver loop of main().      *)
(*                                                                         *)
(* Characters are their ASCII codes as the C type char holds them (signed, *)
(* as on the x86 builds of the program): '\n' = 10, ' ' = 32, '(' = 40,    *)
(* ')' = 41, '*' = 42, '+' = 43, '-' = 45, '/' = 47, '0'..'9' = 48..57,    *)
(* and the end-of-file marker (char)-1.  The model's literals and          *)
(* expressions are small enough that int arithmetic never overflows.       *)
(***************************************************************************)
EXTENDS Integers, Sequences, FiniteSets, TLC

VARIABLES
    input,                          \* the bytes of the opened source file
    input_end,                      \* what read() returns past the last byte: "eof" or "error"
    file_openable,                  \* whether open() succeeds
    is_tty,                         \* what isatty(source_file_fd) answers
    input_pos,                      \* bytes of the file consumed by read() so far
    source_file_line,               \* the line buffer (its written prefix; the rest is 0)
    source_file_line_occupied_size,
    source_file_eof_read,
    source_file_line_number,
    c_buffer,                       \* read_line's static c_buffer
    show_prompt,                    \* read_line's static show_prompt
    first_run,                      \* read_line's static first_run
    stream,                         \* main's token list of the current iteration
    parser_token_stream,
    parser_next_token,              \* index into parser_token_stream; past its end = NULL
    parser_active_token,            \* the token last requested (NULL before the first)
    tree,                           \* main's AST of the current iteration
    callstack,
    callstack_top,
    work,                           \* the evaluator's pending calls (its C call stack)
    status,                         \* execution_engine's status
    ast_live,                       \* AST nodes allocated and not freed
    out,                            \* what was written to stdout
    err,                            \* what was written to stderr
    failed,                         \* the FAILURE returns seen so far, by loop iteration
    return_code,
    iter,                           \* iterations of main's loop started
    pc

vars == <<input, input_end, file_openable, is_tty, input_pos, source_file_line,
          source_file_line_occupied_size, source_file_eof_read,
          source_file_line_number, c_buffer, show_prompt, first_run, stream,
          parser_token_stream, parser_next_token, parser_active_token, tree,
          callstack, callstack_top, work, status, ast_live, out, err, failed,
          return_code, iter, pc>>

SUCCESS == 0
FAILURE == 1
\* not returned yet: the value of a status that is neither of the two
RUNNING == SUCCESS - 1
MAX_LINE_SIZE == 1024
MAX_CALLSTACK_DEPTH == 32

(***************************************************************************)
(* <ctype.h> in the "C" locale, and the characters the tokenizer names.    *)
(***************************************************************************)
EOF_CHAR == -1

isspace(c) == c \in {32, 9, 10, 11, 12, 13}

isdigit(c) == c \in 48..57

NULL == [type |-> "NULL"]

(***************************************************************************)
(* source_file_line is a zero-initialised global array; the model keeps    *)
(* the prefix that has been written and reads 0 beyond it.                 *)
(***************************************************************************)
LineAt(buf, i) == IF i < Len(buf) THEN buf[i + 1] ELSE 0

LineStore(buf, i, c) ==
    IF i < Len(buf) THEN [buf EXCEPT ![i + 1] = c] ELSE Append(buf, c)

(***************************************************************************)
(* read_line.  rs is the reader's state: the globals and statics it uses,  *)
(* the local line_is_all_whitespaces, the number of prompts printed, the   *)
(* diagnostics written, and ret: RUNNING until the function returns.     *)
(***************************************************************************)
ReadLineEntry(rs, tty) ==
    LET sp == IF rs.first_run /\ tty THEN TRUE ELSE rs.show_prompt
    IN  [rs EXCEPT !.first_run = FALSE,
                   !.show_prompt = sp,
                   !.size = 0,
                   !.allws = TRUE,
                   !.prompts = IF sp THEN 1 ELSE 0,
                   !.errs = <<>>,
                   !.ret = RUNNING]

\* one iteration of the while loop of read_line (its exit test included)
ReadLineIteration(rs, bytes, end) ==
    IF rs.ret # RUNNING THEN rs
    ELSE IF ~(rs.size < MAX_LINE_SIZE) THEN [rs EXCEPT !.ret = FAILURE]
    ELSE IF rs.pos >= Len(bytes) /\ end = "error"
         THEN [rs EXCEPT !.errs = Append(@, [kind |-> "read"]), !.ret = FAILURE]
    ELSE IF rs.pos >= Len(bytes)
         THEN \* read() returned 0: c_buffer keeps the byte read before
              [rs EXCEPT !.buf = LineStore(LineStore(rs.buf, rs.size, rs.cbuf), 0, EOF_CHAR),
                         !.size = @ + 1,
                         !.eof = 1,
                         !.ret = SUCCESS]
    ELSE LET c == bytes[rs.pos + 1]
             r1 == [rs EXCEPT !.pos = @ + 1,
                              !.cbuf = c,
                              !.buf = LineStore(rs.buf, rs.size, c),
                              !.size = @ + 1]
         IN  IF c = 10
             THEN IF r1.size = 1 \/ r1.allws
                  THEN [r1 EXCEPT !.lineno = @ + 1,
                                  !.size = 0,
                                  !.prompts = IF rs.show_prompt THEN @ + 1 ELSE @]
                  ELSE [r1 EXCEPT !.lineno = @ + 1, !.ret = SUCCESS]
             ELSE IF r1.allws /\ ~isspace(c)
                  THEN [r1 EXCEPT !.allws = FALSE]
                  ELSE r1

\* n iterations of the loop, stopping when the function has returned
RECURSIVE ReadLineLoop(_, _, _, _)
ReadLineLoop(rs, bytes, end, n) ==
    IF rs.ret # RUNNING \/ n = 0 THEN rs
    ELSE IF n = 1 THEN ReadLineIteration(rs, bytes, end)
    ELSE ReadLineLoop(ReadLineLoop(rs, bytes, end, n \div 2), bytes, end, n - (n \div 2))

\* the loop reads a byte or returns in every iteration, so it ends within
\* Len(bytes) + 2 iterations
read_line(rs, bytes, end, tty) ==
    ReadLineLoop(ReadLineEntry(rs, tty), bytes, end, Len(bytes) + 2)

(***************************************************************************)
(* The tokenizer.  A token is [type, lexeme]; the lexeme of a token that   *)
(* is no number stays NULL (calloc), written <<>>.                         *)
(***************************************************************************)
Token(type, lexeme) == [type |-> type, lexeme |-> lexeme]

\* the index at which while(isdigit(source_file_line[++i])) stops
DigitRunEnd(buf, i) ==
    CHOOSE j \in (i + 1)..(Len(buf) + 1) :
        /\ ~isdigit(LineAt(buf, j))
        /\ \A k \in (i + 1)..(j - 1) : isdigit(LineAt(buf, k))

\* strndup(&source_file_line[i], n): at most n characters, up to a NUL
strndup(buf, i, n) ==
    LET len == CHOOSE m \in 0..n :
                   /\ \A k \in 0..(m - 1) : LineAt(buf, i + k) # 0
                   /\ (m = n \/ LineAt(buf, i + m) = 0)
    IN  [k \in 1..len |-> LineAt(buf, i + k - 1)]

SnippetStart(i) == IF i > 5 THEN i - 5 ELSE 0

SnippetEnd(i, size) == IF (i + 5) < size - 1 THEN i + 5 ELSE size - 1

\* the "Unexpected character." report: the snippet line and the marker line
LexDiagnostic(buf, size, i) ==
    LET snippet_start == SnippetStart(i)
        snippet_end == SnippetEnd(i, size)
    IN  [kind |-> "UnexpectedCharacter",
         column |-> i,
         before |-> [k \in 1..(i - snippet_start) |-> LineAt(buf, snippet_start + k - 1)],
         fault |-> LineAt(buf, i),
         after |-> [k \in 1..(snippet_end - (i + 1)) |-> LineAt(buf, i + k)],
         markers |-> [k \in 1..(snippet_end - snippet_start + 1) |->
                         IF snippet_start + k - 1 # i THEN "~" ELSE "^"]]

OperatorTokenType(c) ==
    CASE c = EOF_CHAR -> "token_end_of_file"
      [] c = 43 -> "token_plus"
      [] c = 45 -> "token_minus"
      [] c = 42 -> "token_times"
      [] c = 47 -> "token_divide"
      [] c = 40 -> "token_bracket_open"
      [] c = 41 -> "token_bracket_close"
      [] c = 10 -> "token_end_of_expression"
      [] OTHER -> "none"

\* one iteration of the for loop of the tokenizer (its exit test included);
\* ts = [i, lexeme_length, list, errs, ret]
TokenizeIteration(ts, buf, size) ==
    IF ts.ret # RUNNING THEN ts
    ELSE IF ~(ts.i < size) THEN [ts EXCEPT !.ret = SUCCESS]
    ELSE LET i == ts.i
             c == LineAt(buf, i)
         IN  IF isspace(c) /\ c # 10 THEN [ts EXCEPT !.i = @ + 1]
             ELSE IF OperatorTokenType(c) # "none"
             THEN [ts EXCEPT !.list = Append(@, Token(OperatorTokenType(c), <<>>)),
                             !.i = @ + 1]
             ELSE IF ~isdigit(c)
             THEN [ts EXCEPT !.errs = Append(@, LexDiagnostic(buf, size, i)),
                             !.ret = FAILURE]
             ELSE LET j == DigitRunEnd(buf, i)
                      lexeme_length == ts.lexeme_length + (j - i - 1)
                  IN  [ts EXCEPT !.lexeme_length = lexeme_length,
                                 !.list = Append(@, Token("token_number",
                                                          strndup(buf, i, lexeme_length))),
                                 !.i = j]

RECURSIVE TokenizeLoop(_, _, _, _)
TokenizeLoop(ts, buf, size, n) ==
    IF ts.ret # RUNNING \/ n = 0 THEN ts
    ELSE IF n = 1 THEN TokenizeIteration(ts, buf, size)
    ELSE TokenizeLoop(TokenizeLoop(ts, buf, size, n \div 2), buf, size, n - (n \div 2))

\* every iteration advances i or returns: at most size + 1 iterations
tokenize_source_line_and_add_to_list(list, buf, size) ==
    TokenizeLoop([i |-> 0, lexeme_length |-> 1, list |-> list, errs |-> <<>>,
                  ret |-> RUNNING], buf, size, size + 1)

(***************************************************************************)
(* The AST.  A leaf is [type, value]; an internal node is [type, children] *)
(* with children[1] and children[2] the C children[0] and children[1].     *)
(***************************************************************************)
AstNum(v) == [type |-> "ast_num", value |-> v]

AstOp(type, left, right) == [type |-> type, children |-> <<left, right>>]

\* strtol(str, 0, 10) on a string that starts with a digit: the value of
\* its leading digits
RECURSIVE strtol_digits(_, _, _)
strtol_digits(str, k, acc) ==
    IF k > Len(str) \/ ~isdigit(str[k]) THEN acc
    ELSE strtol_digits(str, k + 1, acc * 10 + (str[k] - 48))

str_to_int(str) == strtol_digits(str, 1, 0)

\* get_token_lexeme(token)[0], the character the syntax errors print
LexemeFirstChar(token) ==
    CASE token.type = "token_number" -> token.lexeme[1]
      [] token.type = "token_plus" -> 43
      [] token.type = "token_minus" -> 45
      [] token.type = "token_times" -> 42
      [] token.type = "token_divide" -> 47
      [] token.type = "token_bracket_close" -> 41
      [] token.type = "token_bracket_open" -> 40
      [] token.type = "token_end_of_file" -> 45
      [] token.type = "token_end_of_expression" -> 92

(***************************************************************************)
(* The parser's cursor ps = [next, active]: parser_next_token as an index  *)
(* into the registered stream (past its end = NULL) and the value of       *)
(* *parser_active_token.                                                   *)
(***************************************************************************)
parser_register_token_stream(toks, ps) == [ps EXCEPT !.next = 1]

parser_get_next_token(toks, ps) ==
    IF ps.next <= Len(toks)
    THEN [next |-> ps.next + 1, active |-> toks[ps.next]]
    ELSE ps

token_type_is(ps, x) == ps.active.type = x

\* the diagnostics of the parser: all but the missing ')' name a character
SyntaxError(what, ps) ==
    IF what = "closing )" THEN [kind |-> "SyntaxError", expected |-> what]
    ELSE [kind |-> "SyntaxError", expected |-> what, near |-> LexemeFirstChar(ps.active)]

(***************************************************************************)
(* The parse functions call each other recursively; the model keeps their  *)
(* C call stack explicitly.  pm = [ctl, ps, r, tree, errs, allocs]: ctl    *)
(* the active calls, innermost first, each a frame [fn, at, t] (the        *)
(* function, the place it has reached, and the value of the slot its       *)
(* argument tree points to); ps the cursor; r and tree the status the last *)
(* returned call returned and the value it left in its slot; errs the      *)
(* diagnostics written; allocs the number of ast_new() calls made.         *)
(***************************************************************************)
Frame(fn, at, t) == [fn |-> fn, at |-> at, t |-> t]

\* the running call returns r, leaving t in its slot
Return(pm, r, t) == [pm EXCEPT !.ctl = Tail(@), !.r = r, !.tree = t]

\* the running call calls fn on a slot holding t, to resume at place `at`
\* with its own slot holding own
Call(pm, fn, t, at, own) ==
    [pm EXCEPT !.ctl = <<Frame(fn, "entry", t), [Head(pm.ctl) EXCEPT !.at = at, !.t = own]>>
                       \o Tail(@)]

\* the test of the folding loop of a level with r and *tree as given, and,
\* when it passes, the pass up to the call that parses the right operand
FoldLoop(pm, toks, r, t, operator, sub) ==
    IF token_type_is(pm.ps, operator) /\ r = SUCCESS
    THEN Call([pm EXCEPT !.ps = parser_get_next_token(toks, pm.ps), !.allocs = @ + 1],
              sub, NULL, "operand", t)
    ELSE Return(pm, r, t)

\* a step of a folding function: the call of the first sub-production, or
\* the code that follows the return of a call it made
FoldStep(pm, toks, operator, type, sub) ==
    LET f == Head(pm.ctl)
    IN  IF f.at = "entry" THEN Call(pm, sub, f.t, "first", f.t)
        ELSE IF f.at = "first" THEN FoldLoop(pm, toks, pm.r, pm.tree, operator, sub)
        ELSE IF pm.r = FAILURE THEN Return(pm, FAILURE, f.t)
        ELSE FoldLoop(pm, toks, SUCCESS, AstOp(type, f.t, pm.tree), operator, sub)

parser_parse_add_expression(pm, toks) ==
    FoldStep(pm, toks, "token_plus", "ast_add", "parser_parse_sub_expression")

parser_parse_sub_expression(pm, toks) ==
    FoldStep(pm, toks, "token_minus", "ast_sub", "parser_parse_mul_expression")

parser_parse_mul_expression(pm, toks) ==
    FoldStep(pm, toks, "token_times", "ast_mul", "parser_parse_div_expression")

parser_parse_div_expression(pm, toks) ==
    FoldStep(pm, toks, "token_divide", "ast_div", "parser_parse_unit_expression")

parser_parse_unit_expression(pm, toks) ==
    LET f == Head(pm.ctl)
    IN  IF f.at = "entry"
        THEN IF token_type_is(pm.ps, "token_bracket_open")
             THEN Call([pm EXCEPT !.ps = parser_get_next_token(toks, pm.ps)],
                       "parser_parse_add_expression", f.t, "bracket", f.t)
             ELSE IF token_type_is(pm.ps, "token_number")
             THEN Return([pm EXCEPT !.ps = parser_get_next_token(toks, pm.ps),
                                    !.allocs = @ + 1],
                         SUCCESS, AstNum(str_to_int(pm.ps.active.lexeme)))
             ELSE Return([pm EXCEPT !.errs = Append(@, SyntaxError("an integer or (", pm.ps))],
                         FAILURE, f.t)
        ELSE IF pm.r = FAILURE THEN Return(pm, FAILURE, pm.tree)
        ELSE IF ~token_type_is(pm.ps, "token_bracket_close")
        THEN Return([pm EXCEPT !.errs = Append(@, SyntaxError("closing )", pm.ps))],
                    FAILURE, pm.tree)
        ELSE Return([pm EXCEPT !.ps = parser_get_next_token(toks, pm.ps)], pm.r, pm.tree)

\* parser_parse_expression without its test for the end of the expression
ParseExpressionAnyEnd(pm, toks) ==
    LET f == Head(pm.ctl)
    IN  IF f.at = "entry"
        THEN Call(pm, "parser_parse_add_expression", f.t, "add", f.t)
        ELSE Return([pm EXCEPT !.ps = parser_get_next_token(toks, pm.ps)], pm.r, pm.tree)

parser_parse_expression(pm, toks) ==
    LET f == Head(pm.ctl)
    IN  IF f.at = "entry"
        THEN Call(pm, "parser_parse_add_expression", f.t, "add", f.t)
        ELSE LET bad == /\ pm.r = SUCCESS
                        /\ ~token_type_is(pm.ps, "token_end_of_expression")
                        /\ ~token_type_is(pm.ps, "token_end_of_file")
             IN  Return([pm EXCEPT !.errs = IF bad
                                             THEN Append(@, SyntaxError("end of expression", pm.ps))
                                             ELSE @,
                                   !.ps = parser_get_next_token(toks, pm.ps)],
                        IF bad THEN FAILURE ELSE pm.r, pm.tree)

\* one step of the innermost active call
ParseStep(pm, toks) ==
    IF pm.ctl = <<>> THEN pm
    ELSE CASE Head(pm.ctl).fn = "parser_parse_expression" -> parser_parse_expression(pm, toks)
           [] Head(pm.ctl).fn = "parser_parse_add_expression" -> parser_parse_add_expression(pm, toks)
           [] Head(pm.ctl).fn = "parser_parse_sub_expression" -> parser_parse_sub_expression(pm, toks)
           [] Head(pm.ctl).fn = "parser_parse_mul_expression" -> parser_parse_mul_expression(pm, toks)
           [] Head(pm.ctl).fn = "parser_parse_div_expression" -> parser_parse_div_expression(pm, toks)
           [] Head(pm.ctl).fn = "parser_parse_unit_expression" -> parser_parse_unit_expression(pm, toks)

\* n steps, stopping when every call has returned
RECURSIVE ParseLoop(_, _, _)
ParseLoop(pm, toks, n) ==
    IF pm.ctl = <<>> \/ n = 0 THEN pm
    ELSE IF n = 1 THEN ParseStep(pm, toks)
    ELSE ParseLoop(ParseLoop(pm, toks, n \div 2), toks, n - (n \div 2))

\* a call takes at most one step per call it makes plus one, and a token is
\* consumed between a function's calls of itself: 16 steps a token suffice
ParseStepBound(toks) == 16 * (Len(toks) + 1)

\* parse_token_stream_into_ast(stream, &tree) with *tree = t:
\* [r, tree, ps, errs, allocs]
parse_token_stream_into_ast(toks, ps, t) ==
    LET ps1 == parser_get_next_token(toks, parser_register_token_stream(toks, ps))
        pm0 == [ctl |-> <<>>, ps |-> ps1, r |-> SUCCESS, tree |-> t, errs |-> <<>>,
                allocs |-> 0]
    IN  IF ~token_type_is(ps1, "token_end_of_file")
        THEN ParseLoop([pm0 EXCEPT !.ctl = <<Frame("parser_parse_expression", "entry", t)>>],
                       toks, ParseStepBound(toks))
        ELSE pm0

(***************************************************************************)
(* The evaluator.  es = [work, top, stack, errs, status]: the pending      *)
(* calls of execution_engine_process_ast_node in the order they will run   *)
(* (a node to process, or the operation that follows a node's two          *)
(* children), callstack_top, callstack, the diagnostics written and the    *)
(* status: RUNNING until execution_engine_process_ast_node(tree) has     *)
(* returned.                                                               *)
(***************************************************************************)
NodeItem(node) == [kind |-> "node", node |-> node]

OpItem(type) == [kind |-> "op", type |-> type]

\* callstack_is_full answering one push early
CallstackFullOneEarly(top) == top = 1

callstack_is_full(top) == top = 0

callstack_is_empty(top) == top = MAX_CALLSTACK_DEPTH

callstack_clear == MAX_CALLSTACK_DEPTH

Abs(x) == IF x < 0 THEN -x ELSE x

\* the / of C on int: the quotient truncated toward zero
CDiv(a, b) ==
    IF (a < 0) = (b < 0) THEN Abs(a) \div Abs(b) ELSE -(Abs(a) \div Abs(b))

\* the value execution_engine_do_operation pushes
Operate(type, left_operand, right_operand) ==
    CASE type = "ast_add" -> left_operand + right_operand
      [] type = "ast_sub" -> left_operand - right_operand
      [] type = "ast_mul" -> left_operand * right_operand
      [] type = "ast_div" -> CDiv(left_operand, right_operand)

\* execution_engine_do_operation popping the left operand first
DoOperationLeftFirst(es, type) ==
    LET left_operand == es.stack[es.top]
        right_operand == es.stack[es.top + 1]
        top2 == es.top + 2
    IN  IF type = "ast_div" /\ right_operand = 0
        THEN [es EXCEPT !.top = top2,
                        !.errs = Append(@, [kind |-> "DivisionByZero"]),
                        !.status = FAILURE,
                        !.work = <<>>]
        ELSE [es EXCEPT !.top = top2 - 1,
                        !.stack = [@ EXCEPT ![top2 - 1] =
                                      Operate(type, left_operand, right_operand)],
                        !.work = Tail(@)]

execution_engine_do_operation(es, type) ==
    LET right_operand == es.stack[es.top]
        left_operand == es.stack[es.top + 1]
        top2 == es.top + 2
    IN  IF type = "ast_div" /\ right_operand = 0
        THEN [es EXCEPT !.top = top2,
                        !.errs = Append(@, [kind |-> "DivisionByZero"]),
                        !.status = FAILURE,
                        !.work = <<>>]
        ELSE [es EXCEPT !.top = top2 - 1,
                        !.stack = [@ EXCEPT ![top2 - 1] =
                                      Operate(type, left_operand, right_operand)],
                        !.work = Tail(@)]

execution_engine_process_ast_node(es, node) ==
    IF node = NULL THEN [es EXCEPT !.work = Tail(@)]
    ELSE IF node.type = "ast_num"
    THEN IF callstack_is_full(es.top)
         THEN [es EXCEPT !.errs = Append(@, [kind |-> "StackOverflow"]),
                         !.status = FAILURE,
                         !.work = <<>>]
         ELSE [es EXCEPT !.top = @ - 1,
                         !.stack = [@ EXCEPT ![es.top - 1] = node.value],
                         !.work = Tail(@)]
    ELSE [es EXCEPT !.work = <<NodeItem(node.children[1]), NodeItem(node.children[2]),
                               OpItem(node.type)>> \o Tail(@)]

\* one step of the traversal; when no call is pending the traversal has
\* returned SUCCESS
ExecStep(es) ==
    IF es.status # RUNNING THEN es
    ELSE IF es.work = <<>> THEN [es EXCEPT !.status = SUCCESS]
    ELSE IF Head(es.work).kind = "node"
    THEN execution_engine_process_ast_node(es, Head(es.work).node)
    ELSE execution_engine_do_operation(es, Head(es.work).type)

\* execution_engine without its callstack_clear()
EpilogueWithoutClear(es, t) ==
    IF t = NULL
    THEN [status |-> SUCCESS, top |-> es.top, errs |-> es.errs, printed |-> <<>>]
    ELSE IF es.status = SUCCESS /\ callstack_is_empty(es.top)
    THEN [status |-> FAILURE, top |-> es.top,
          errs |-> Append(es.errs, [kind |-> "StackUnderflow"]), printed |-> <<>>]
    ELSE IF es.status = SUCCESS
    THEN [status |-> SUCCESS, top |-> es.top + 1, errs |-> es.errs,
          printed |-> <<es.stack[es.top]>>]
    ELSE [status |-> es.status, top |-> es.top, errs |-> es.errs, printed |-> <<>>]

\* execution_engine(tree) from the return of the traversal on (all of it
\* when tree is NULL): [status, top, errs, printed]
ExecutionEngineEpilogue(es, t) ==
    IF t = NULL
    THEN [status |-> SUCCESS, top |-> callstack_clear, errs |-> es.errs, printed |-> <<>>]
    ELSE IF es.status = SUCCESS /\ callstack_is_empty(es.top)
    THEN [status |-> FAILURE, top |-> es.top,
          errs |-> Append(es.errs, [kind |-> "StackUnderflow"]), printed |-> <<>>]
    ELSE IF es.status = SUCCESS
    THEN [status |-> SUCCESS, top |-> callstack_clear, errs |-> es.errs,
          printed |-> <<es.stack[es.top]>>]
    ELSE [status |-> es.status, top |-> callstack_clear, errs |-> es.errs,
          printed |-> <<>>]

\* n steps of the traversal, stopping when it has returned
RECURSIVE ExecLoop(_, _)
ExecLoop(es, n) ==
    IF es.status # RUNNING \/ n = 0 THEN es
    ELSE IF n = 1 THEN ExecStep(es)
    ELSE ExecLoop(ExecLoop(es, n \div 2), n - (n \div 2))

(***************************************************************************)
(* The state machine: main() and the functions it calls.                   *)
(***************************************************************************)
Tagged(k, items) == [j \in 1..Len(items) |-> [iter |-> k, item |-> items[j]]]

Failure(k, stage) == [iter |-> k, stage |-> stage]

Prompts(n) == [j \in 1..n |-> [kind |-> "prompt"]]

ReaderState ==
    [pos |-> input_pos, buf |-> source_file_line,
     size |-> source_file_line_occupied_size, cbuf |-> c_buffer,
     eof |-> source_file_eof_read, lineno |-> source_file_line_number,
     show_prompt |-> show_prompt, first_run |-> first_run,
     allws |-> TRUE, prompts |-> 0, errs |-> <<>>, ret |-> RUNNING]

EvalState ==
    [work |-> work, top |-> callstack_top, stack |-> callstack, errs |-> <<>>,
     status |-> status]

\* the program text and its environment: p = [bytes, end, openable, tty]
InitWith(Programs) ==
    /\ \E p \in Programs :
          /\ input = p.bytes
          /\ input_end = p.end
          /\ file_openable = p.openable
          /\ is_tty = p.tty
    /\ input_pos = 0
    /\ source_file_line = <<>>
    /\ source_file_line_occupied_size = MAX_LINE_SIZE
    /\ source_file_eof_read = 0
    /\ source_file_line_number = 0
    /\ c_buffer = 0
    /\ show_prompt = FALSE
    /\ first_run = TRUE
    /\ stream = <<>>
    /\ parser_token_stream = <<>>
    /\ parser_next_token = 1
    /\ parser_active_token = NULL
    /\ tree = NULL
    /\ callstack = [k \in 0..(MAX_CALLSTACK_DEPTH - 1) |-> 0]
    /\ callstack_top = MAX_CALLSTACK_DEPTH
    /\ work = <<>>
    /\ status = SUCCESS
    /\ ast_live = 0
    /\ out = <<>>
    /\ err = <<>>
    /\ failed = <<>>
    /\ return_code = SUCCESS
    /\ iter = 0
    /\ pc = "open"

\* main up to its loop: open_source_file and the banner
OpenSourceFile ==
    /\ pc = "open"
    /\ IF ~file_openable
       THEN /\ err' = err \o Tagged(iter, <<[kind |-> "open"]>>)
            /\ failed' = Append(failed, Failure(iter, "open_source_file"))
            /\ return_code' = FAILURE
            /\ out' = out
            /\ pc' = "done"
       ELSE /\ out' = out \o Tagged(iter, IF is_tty THEN <<[kind |-> "banner"]>> ELSE <<>>)
            /\ pc' = "loop"
            /\ UNCHANGED <<err, failed, return_code>>
    /\ UNCHANGED <<input, input_end, file_openable, is_tty, input_pos, source_file_line,
                   source_file_line_occupied_size, source_file_eof_read,
                   source_file_line_number, c_buffer, show_prompt, first_run, stream,
                   parser_token_stream, parser_next_token, parser_active_token, tree,
                   callstack, callstack_top, work, status, ast_live, iter>>

\* the loop test, token_list_new() and read_line()
ReadLine ==
    /\ pc = "loop"
    /\ source_file_eof_read = 0
    /\ LET rs == read_line(ReaderState, input, input_end, is_tty)
       IN  /\ iter' = iter + 1
           /\ stream' = <<>>
           /\ input_pos' = rs.pos
           /\ source_file_line' = rs.buf
           /\ source_file_line_occupied_size' = rs.size
           /\ source_file_eof_read' = rs.eof
           /\ source_file_line_number' = rs.lineno
           /\ c_buffer' = rs.cbuf
           /\ show_prompt' = rs.show_prompt
           /\ first_run' = rs.first_run
           /\ out' = out \o Tagged(iter + 1, Prompts(rs.prompts))
           /\ err' = err \o Tagged(iter + 1, rs.errs)
           /\ IF rs.ret = FAILURE
              THEN /\ failed' = Append(failed, Failure(iter + 1, "read_line"))
                   /\ return_code' = FAILURE
                   /\ pc' = "exit"
              ELSE /\ pc' = "tokenize"
                   /\ UNCHANGED <<failed, return_code>>
    /\ UNCHANGED <<input, input_end, file_openable, is_tty, parser_token_stream,
                   parser_next_token, parser_active_token, tree, callstack,
                   callstack_top, work, status, ast_live>>

Tokenize ==
    /\ pc = "tokenize"
    /\ LET ts == tokenize_source_line_and_add_to_list(stream, source_file_line,
                                                      source_file_line_occupied_size)
       IN  /\ stream' = ts.list
           /\ err' = err \o Tagged(iter, ts.errs)
           /\ IF ts.ret = FAILURE
              THEN /\ failed' = Append(failed, Failure(iter, "tokenize"))
                   /\ return_code' = FAILURE
                   /\ pc' = "loop"
              ELSE /\ pc' = "parse"
                   /\ UNCHANGED <<failed, return_code>>
    /\ UNCHANGED <<input, input_end, file_openable, is_tty, input_pos, source_file_line,
                   source_file_line_occupied_size, source_file_eof_read,
                   source_file_line_number, c_buffer, show_prompt, first_run,
                   parser_token_stream, parser_next_token, parser_active_token, tree,
                   callstack, callstack_top, work, status, ast_live, out, iter>>

\* parse_token_stream_into_ast and, when it succeeds, the call of
\* execution_engine
Parse ==
    /\ pc = "parse"
    /\ LET p == parse_token_stream_into_ast(
                    stream, [next |-> parser_next_token, active |-> parser_active_token], NULL)
       IN  /\ parser_token_stream' = stream
           /\ parser_next_token' = p.ps.next
           /\ parser_active_token' = p.ps.active
           /\ tree' = p.tree
           /\ ast_live' = ast_live + p.allocs
           /\ err' = err \o Tagged(iter, p.errs)
           /\ IF p.r = SUCCESS
              THEN /\ work' = IF p.tree # NULL THEN <<NodeItem(p.tree)>> ELSE <<>>
                   /\ status' = RUNNING
                   /\ pc' = "execute"
                   /\ UNCHANGED <<failed, return_code>>
              ELSE /\ failed' = Append(failed, Failure(iter, "parse"))
                   /\ return_code' = FAILURE
                   /\ pc' = "loop"
                   /\ UNCHANGED <<work, status>>
    /\ UNCHANGED <<input, input_end, file_openable, is_tty, input_pos, source_file_line,
                   source_file_line_occupied_size, source_file_eof_read,
                   source_file_line_number, c_buffer, show_prompt, first_run, stream,
                   callstack, callstack_top, out, iter>>

\* the effect of a step of the traversal
TraversalStep ==
    /\ LET es == ExecStep(EvalState)
       IN  /\ work' = es.work
           /\ callstack_top' = es.top
           /\ callstack' = es.stack
           /\ status' = es.status
           /\ err' = err \o Tagged(iter, es.errs)
    /\ UNCHANGED <<input, input_end, file_openable, is_tty, input_pos, source_file_line,
                   source_file_line_occupied_size, source_file_eof_read,
                   source_file_line_number, c_buffer, show_prompt, first_run, stream,
                   parser_token_stream, parser_next_token, parser_active_token, tree,
                   ast_live, out, failed, return_code, iter, pc>>

\* execution_engine_process_ast_node up to its first call or its return
ProcessAstNode ==
    /\ pc = "execute"
    /\ status = RUNNING
    /\ work # <<>>
    /\ Head(work).kind = "node"
    /\ TraversalStep

\* execution_engine_do_operation, called once both children have returned
DoOperation ==
    /\ pc = "execute"
    /\ status = RUNNING
    /\ work # <<>>
    /\ Head(work).kind = "op"
    /\ TraversalStep

\* the rest of execution_engine once the traversal has returned, and the
\* rest of main's loop body: return_code and token_list_free(stream)
ExecutionEngineReturn ==
    /\ pc = "execute"
    /\ status # RUNNING \/ work = <<>>
    /\ LET e == ExecutionEngineEpilogue(ExecStep(EvalState), tree)
       IN  /\ callstack_top' = e.top
           /\ status' = e.status
           /\ err' = err \o Tagged(iter, e.errs)
           /\ out' = out \o Tagged(iter, [j \in 1..Len(e.printed) |->
                                             [kind |-> "result", value |-> e.printed[j]]])
           /\ IF e.status # SUCCESS
              THEN /\ failed' = Append(failed, Failure(iter, "execution_engine"))
                   /\ return_code' = FAILURE
              ELSE UNCHANGED <<failed, return_code>>
    /\ work' = <<>>
    /\ stream' = <<>>
    /\ pc' = "loop"
    /\ UNCHANGED <<input, input_end, file_openable, is_tty, input_pos, source_file_line,
                   source_file_line_occupied_size, source_file_eof_read,
                   source_file_line_number, c_buffer, show_prompt, first_run,
                   parser_token_stream, parser_next_token, parser_active_token, tree,
                   callstack, ast_live, iter>>

\* the loop has ended (end of file read, or the break after read_line)
Exit ==
    /\ \/ pc = "exit"
       \/ pc = "loop" /\ source_file_eof_read # 0
    /\ out' = out \o Tagged(iter, <<[kind |-> "newline"]>>)
    /\ pc' = "done"
    /\ UNCHANGED <<input, input_end, file_openable, is_tty, input_pos, source_file_line,
                   source_file_line_occupied_size, source_file_eof_read,
                   source_file_line_number, c_buffer, show_prompt, first_run, stream,
                   parser_token_stream, parser_next_token, parser_active_token, tree,
                   callstack, callstack_top, work, status, ast_live, err, failed,
                   return_code, iter>>

Next ==
    \/ OpenSourceFile
    \/ ReadLine
    \/ Tokenize
    \/ Parse
    \/ ProcessAstNode
    \/ DoOperation
    \/ ExecutionEngineReturn
    \/ Exit

(***************************************************************************)
(* Program texts.  Str turns a sequence of one-character strings into the  *)
(* bytes of a file ("nl" is the newline).                                  *)
(***************************************************************************)
Ord ==
    ("0" :> 48) @@ ("1" :> 49) @@ ("2" :> 50) @@ ("3" :> 51) @@ ("4" :> 52) @@
    ("5" :> 53) @@ ("6" :> 54) @@ ("7" :> 55) @@ ("8" :> 56) @@ ("9" :> 57) @@
    ("+" :> 43) @@ ("-" :> 45) @@ ("*" :> 42) @@ ("/" :> 47) @@ ("(" :> 40) @@
    (")" :> 41) @@ (" " :> 32) @@ ("nl" :> 10) @@ ("&" :> 38) @@ ("a" :> 97)

Str(s) == [k \in 1..Len(s) |-> Ord[s[k]]]

Program(bytes) == [bytes |-> bytes, end |-> "eof", openable |-> TRUE, tty |-> FALSE]


\* 1+(1+( ... +(1+1) ... )) with n operands: its evaluation holds n operands
\* on the stack at once
RECURSIVE NestedSum(_)
NestedSum(n) ==
    IF n = 1 THEN Str(<<"1">>)
    ELSE IF n = 2 THEN Str(<<"1", "+", "1">>)
    ELSE Str(<<"1", "+", "(">>) \o NestedSum(n - 1) \o Str(<<")">>)

NestedLine(n) == NestedSum(n) \o Str(<<"nl">>)

\* programs that between them take every path of the driver
SmokePrograms ==
    { Program(Str(<<"2", "+", "3", "*", "4", "nl", "(", "2", "+", "3", ")", "*", "4", "nl",
                    "7", "/", "2", "nl">>)),
      Program(Str(<<"3", " ", "&", " ", "4", "nl", "1", "+", "nl", "(", "1", "+", "2", "nl",
                    "1", " ", "2", "nl", "5", "/", "0", "nl", " ", "nl", "2", "*", "3", "nl">>)),
      Program(Str(<<"1", "0", "-", "2", "-", "3">>)),
      Program(NestedLine(MAX_CALLSTACK_DEPTH + 1) \o NestedLine(MAX_CALLSTACK_DEPTH)),
      Program([k \in 1..MAX_LINE_SIZE |-> 49]),
      [Program(Str(<<"1", "nl">>)) EXCEPT !.end = "error"],
      [Program(Str(<<" ", "nl", "1", "+", "1", "nl">>)) EXCEPT !.tty = TRUE],
      [Program(<<>>) EXCEPT !.openable = FALSE] }

Init == InitWith(SmokePrograms)

Spec == Init /\ [][Next]_vars

(***************************************************************************)
(* What a run shows of one iteration of main's loop, and the line that     *)
(* iteration read.                                                         *)
(***************************************************************************)
Items(log, k) == LET mine == SelectSeq(log, LAMBDA e : e.iter = k)
                 IN  [j \in 1..Len(mine) |-> mine[j].item]

\* the results printed in iteration k, and the diagnostics written in it
Results(k) == LET r == SelectSeq(Items(out, k), LAMBDA e : e.kind = "result")
              IN  [j \in 1..Len(r) |-> r[j].value]

Errors(k) == Items(err, k)

ErrorKinds(k) == [j \in 1..Len(Errors(k)) |-> Errors(k)[j].kind]

\* iteration iter is over: control is back at the loop test
LineDone == pc = "loop" /\ iter >= 1

\* the bytes read_line returned in this iteration
CurrentLine == SubSeq(source_file_line, 1, source_file_line_occupied_size)

\* this iteration read a line (and not the end of the file)
ReadALine == LineDone /\ source_file_eof_read = 0

(***************************************************************************)
(* The outcome of a line in a fresh run: tokenizer, parser and evaluator   *)
(* run from the program's initial state on a buffer holding the line.      *)
(***************************************************************************)
FreshOutcome(line) ==
    LET ts == tokenize_source_line_and_add_to_list(<<>>, line, Len(line))
        p == parse_token_stream_into_ast(ts.list, [next |-> 1, active |-> NULL], NULL)
        es == ExecLoop([work |-> IF p.tree # NULL THEN <<NodeItem(p.tree)>> ELSE <<>>,
                        top |-> MAX_CALLSTACK_DEPTH,
                        stack |-> [k \in 0..(MAX_CALLSTACK_DEPTH - 1) |-> 0],
                        errs |-> <<>>, status |-> RUNNING],
                       4 * (Len(ts.list) + 1))
        e == ExecutionEngineEpilogue(ExecStep(es), p.tree)
    IN  IF ts.ret = FAILURE THEN [results |-> <<>>, errors |-> ts.errs]
        ELSE IF p.r = FAILURE THEN [results |-> <<>>, errors |-> p.errs]
        ELSE [results |-> e.printed, errors |-> e.errs]

Outcome(k) == [results |-> Results(k), errors |-> Errors(k)]

(***************************************************************************)
(* Arithmetic as the claims state it: expression trees, their value, and   *)
(* the text that standard precedence reads as a given tree.                *)
(***************************************************************************)
MaxOps == 2

Literals == {0, 2, 13}

OpTypes == {"ast_add", "ast_sub", "ast_mul", "ast_div"}

RECURSIVE TreesWithOps(_)
TreesWithOps(n) ==
    IF n = 0 THEN {AstNum(v) : v \in Literals}
    ELSE UNION {{AstOp(type, l, r) : type \in OpTypes, l \in TreesWithOps(k),
                                     r \in TreesWithOps(n - 1 - k)} : k \in 0..(n - 1)}

Trees == UNION {TreesWithOps(n) : n \in 0..MaxOps}

\* the integer quotient truncated toward zero
Quotient(a, b) ==
    CHOOSE q \in (-Abs(a))..Abs(a) :
        /\ Abs(a - q * b) < Abs(b)
        /\ (a >= 0 => a - q * b >= 0)
        /\ (a <= 0 => a - q * b <= 0)

\* the value of a tree as <<v>>; <<>> when a divisor is zero
RECURSIVE Value(_)
Value(t) ==
    IF t.type = "ast_num" THEN <<t.value>>
    ELSE LET l == Value(t.children[1])
             r == Value(t.children[2])
         IN  IF l = <<>> \/ r = <<>> THEN <<>>
             ELSE CASE t.type = "ast_add" -> <<l[1] + r[1]>>
                    [] t.type = "ast_sub" -> <<l[1] - r[1]>>
                    [] t.type = "ast_mul" -> <<l[1] * r[1]>>
                    [] t.type = "ast_div" -> IF r[1] = 0 THEN <<>>
                                             ELSE <<Quotient(l[1], r[1])>>

RECURSIVE Decimal(_)
Decimal(n) == IF n < 10 THEN <<48 + n>> ELSE Append(Decimal(n \div 10), 48 + (n % 10))

\* * and / are one level above + and -
Precedence(t) ==
    CASE t.type \in {"ast_add", "ast_sub"} -> 1
      [] t.type \in {"ast_mul", "ast_div"} -> 2
      [] OTHER -> 3

OperatorChar(type) ==
    CASE type = "ast_add" -> 43
      [] type = "ast_sub" -> 45
      [] type = "ast_mul" -> 42
      [] type = "ast_div" -> 47

\* the expression that reads as t: brackets around a left operand of a lower
\* level and around a right operand of a lower or the same level
RECURSIVE Render(_)
Render(t) ==
    IF t.type = "ast_num" THEN Decimal(t.value)
    ELSE LET l == t.children[1]
             r == t.children[2]
             Bracket(x, needed) == IF needed THEN <<40>> \o Render(x) \o <<41>> ELSE Render(x)
         IN  Bracket(l, Precedence(l) < Precedence(t)) \o <<OperatorChar(t.type)>>
             \o Bracket(r, Precedence(r) <= Precedence(t))

ExpressionLine(t) == Append(Render(t), 10)

\* every expression line of the family with the tree it reads as
StandardReading == {[line |-> ExpressionLine(t), tree |-> t] : t \in Trees}

TreePrograms == {Program(e.line) : e \in StandardReading}

SpecTree == InitWith(TreePrograms \cup SmokePrograms) /\ [][Next]_vars

(***************************************************************************)
(* C1: every line that reads, under standard precedence, as a tree whose   *)
(* value is defined prints exactly that value.                             *)
(***************************************************************************)
C1_StandardPrecedence ==
    ReadALine =>
        \A e \in StandardReading :
            (e.line = CurrentLine /\ Value(e.tree) # <<>>)
                => Results(iter) = Value(e.tree)

(***************************************************************************)
(* Chains of one repeated operator: x1 op x2 op ... op xn without brackets *)
(***************************************************************************)
MaxChain == 4

RECURSIVE Tuples(_)
Tuples(n) == IF n = 0 THEN {<<>>}
             ELSE {Append(xs, x) : xs \in Tuples(n - 1), x \in Literals}

\* ((x1 op x2) op x3) ... op xn
RECURSIVE LeftNested(_, _)
LeftNested(type, xs) ==
    IF Len(xs) = 1 THEN AstNum(xs[1])
    ELSE AstOp(type, LeftNested(type, SubSeq(xs, 1, Len(xs) - 1)), AstNum(xs[Len(xs)]))

RECURSIVE ChainText(_, _)
ChainText(type, xs) ==
    IF Len(xs) = 1 THEN Decimal(xs[1])
    ELSE ChainText(type, SubSeq(xs, 1, Len(xs) - 1)) \o <<OperatorChar(type)>>
         \o Decimal(xs[Len(xs)])

Chains == {[line |-> Append(ChainText(type, xs), 10), type |-> type, xs |-> xs] :
              type \in OpTypes, xs \in UNION {Tuples(n) : n \in 2..MaxChain}}

ChainPrograms == {Program(c.line) : c \in Chains}

SpecChain == InitWith(ChainPrograms \cup SmokePrograms) /\ [][Next]_vars

(***************************************************************************)
(* C2: a chain x1 op x2 op ... op xn is parsed into the left-nested tree   *)
(* ((x1 op x2) op x3) ... op xn, and evaluating it gives the value of that *)
(* tree: the result printed when the value is defined, and no result and   *)
(* the DivisionByZero report when a divisor is zero.                       *)
(***************************************************************************)
C2_LeftAssociative ==
    ReadALine =>
        \A c \in Chains :
            c.line = CurrentLine =>
                /\ tree = LeftNested(c.type, c.xs)
                /\ Results(iter) = Value(LeftNested(c.type, c.xs))
                /\ ErrorKinds(iter) = IF Value(LeftNested(c.type, c.xs)) = <<>>
                                      THEN <<"DivisionByZero">> ELSE <<>>

\* a chain of three subtractions and one of three divisions whose left and
\* right nestings differ have been evaluated: 13-2-2 = 9, 13/2/2 = 3
C2_Witness ==
    /\ pc = "done"
    /\ \/ input = Str(<<"1", "3", "-", "2", "-", "2", "nl">>) /\ Results(1) = <<9>>
       \/ input = Str(<<"1", "3", "/", "2", "/", "2", "nl">>) /\ Results(1) = <<3>>

(***************************************************************************)
(* Files of several lines.  The lines of a file are its newline-terminated *)
(* segments that are not blank, in order.                                  *)
(***************************************************************************)
MaxLines == 2

Newlines(bytes) == {i \in 1..Len(bytes) : bytes[i] = 10}

SegmentStart(bytes, i) ==
    IF \E j \in Newlines(bytes) : j < i
    THEN 1 + CHOOSE j \in Newlines(bytes) :
                 j < i /\ \A h \in Newlines(bytes) : h < i => h <= j
    ELSE 1

NonBlankEnds(bytes) ==
    {i \in Newlines(bytes) : \E j \in SegmentStart(bytes, i)..i : ~isspace(bytes[j])}

NumLines(bytes) == Cardinality(NonBlankEnds(bytes))

\* the k-th line of the file, its newline included
InputLine(bytes, k) ==
    LET i == CHOOSE e \in NonBlankEnds(bytes) :
                 Cardinality({h \in NonBlankEnds(bytes) : h < e}) = k - 1
    IN  SubSeq(bytes, SegmentStart(bytes, i), i)

\* lines of every kind: a result, a multi-digit result, the three syntax
\* errors, an unexpected character, a division by zero that leaves an operand
\* on the stack, an expression that fills the stack, and one that overflows it
SampleLines ==
    { Str(<<"2", "+", "1", "3", "*", "2", "nl">>),
      Str(<<"1", "3", "0", "-", "2", "-", "2", "nl">>),
      Str(<<"(", "2", "+", "1", "3", "nl">>),
      Str(<<"2", "+", "nl">>),
      Str(<<"2", " ", "1", "3", "nl">>),
      Str(<<"1", "3", " ", "&", " ", "2", "nl">>),
      Str(<<"2", "+", "1", "3", "/", "0", "nl">>),
      NestedLine(MAX_CALLSTACK_DEPTH),
      NestedLine(MAX_CALLSTACK_DEPTH + 1) }

RECURSIVE LineSequences(_)
LineSequences(n) ==
    IF n = 0 THEN {<<>>}
    ELSE {<<>>} \cup {l \o rest : l \in SampleLines, rest \in LineSequences(n - 1)}

SequencePrograms == {Program(bytes) : bytes \in LineSequences(MaxLines)}

SpecSeq == InitWith(SequencePrograms \cup SmokePrograms) /\ [][Next]_vars

(***************************************************************************)
(* C3: the k-th iteration of the driver's loop reads the k-th line of the  *)
(* file whatever the outcomes of the lines before it, the outcome of that  *)
(* line (the results printed and the diagnostics written) is the outcome   *)
(* the line has in a fresh run, and when the end of the file is reached    *)
(* every line has been processed.                                          *)
(***************************************************************************)
C3_Isolation ==
    /\ ReadALine =>
          /\ iter <= NumLines(input)
          /\ CurrentLine = InputLine(input, iter)
          /\ Outcome(iter) = FreshOutcome(InputLine(input, iter))
    /\ (pc = "done" /\ source_file_eof_read = 1) => iter = NumLines(input) + 1

\* a line has been evaluated correctly right after a line of each failing kind
C3_Witness ==
    /\ ReadALine
    /\ iter = 2
    /\ ErrorKinds(1) \in {<<"UnexpectedCharacter">>, <<"SyntaxError">>,
                          <<"DivisionByZero">>, <<"StackOverflow">>}
    /\ CurrentLine = NestedLine(MAX_CALLSTACK_DEPTH)
    /\ Results(2) = <<MAX_CALLSTACK_DEPTH>>

(***************************************************************************)
(* Deeply nested expressions: x op (x op ( ... (x op x) ... )) with n      *)
(* operands, whose evaluation holds n operands at once, and the chain      *)
(* x op x op ... op x, whose evaluation holds two.                         *)
(***************************************************************************)
MaxOver == 2

RECURSIVE Nested(_, _, _)
Nested(n, x, op) ==
    IF n = 1 THEN <<x>>
    ELSE IF n = 2 THEN <<x, op, x>>
    ELSE <<x, op, 40>> \o Nested(n - 1, x, op) \o <<41>>

RECURSIVE Flat(_, _, _)
Flat(n, x, op) == IF n = 1 THEN <<x>> ELSE Flat(n - 1, x, op) \o <<op, x>>

NestLines ==
    {Append(Nested(n, x, op), 10) :
        n \in 1..(MAX_CALLSTACK_DEPTH + MaxOver), x \in {48, 49}, op \in {43, 47}}
    \cup {Append(Flat(n, 49, 43), 10) : n \in 1..(MAX_CALLSTACK_DEPTH + MaxOver)}

NestPrograms == {Program(l) : l \in NestLines}

SpecNest == InitWith(NestPrograms \cup SmokePrograms) /\ [][Next]_vars

\* the post-order evaluation of t on a stack without a bound, begun with
\* base operands on it: the greatest number of operands it holds at once and
\* its value <<v>>; it stops at a zero divisor, with the value <<>>
RECURSIVE Peak(_, _)
Peak(t, base) ==
    IF t.type = "ast_num" THEN [peak |-> base + 1, val |-> <<t.value>>]
    ELSE LET l == Peak(t.children[1], base)
         IN  IF l.val = <<>> THEN l
             ELSE LET r == Peak(t.children[2], base + 1)
                      peak == IF l.peak > r.peak THEN l.peak ELSE r.peak
                  IN  IF r.val = <<>> \/ (t.type = "ast_div" /\ r.val[1] = 0)
                      THEN [peak |-> peak, val |-> <<>>]
                      ELSE [peak |-> peak,
                            val |-> Value(AstOp(t.type, AstNum(l.val[1]), AstNum(r.val[1])))]

\* this iteration tokenized and parsed its line and ran the evaluator on it
Evaluated ==
    /\ ReadALine
    /\ tree # NULL
    /\ \A j \in 1..Len(failed) :
          failed[j].iter = iter => failed[j].stage = "execution_engine"

(***************************************************************************)
(* C4: an expression whose evaluation needs more than 32 operands on the   *)
(* stack at once fails with StackOverflow and prints nothing; one that     *)
(* needs at most 32 (exactly 32 included) never reports StackOverflow and  *)
(* prints its value unless it divides by zero; and callstack_top is within *)
(* 0..32 in every state.                                                   *)
(***************************************************************************)
C4_StackBound ==
    /\ callstack_top \in 0..MAX_CALLSTACK_DEPTH
    /\ Evaluated =>
          IF Peak(tree, 0).peak > MAX_CALLSTACK_DEPTH
          THEN ErrorKinds(iter) = <<"StackOverflow">> /\ Results(iter) = <<>>
          ELSE /\ ErrorKinds(iter) = IF Peak(tree, 0).val = <<>>
                                      THEN <<"DivisionByZero">> ELSE <<>>
               /\ Results(iter) = Peak(tree, 0).val

\* both sides of the bound have been met: a line needing 33 operands has
\* failed with StackOverflow and the next, needing exactly 32, has printed
\* its value
C4_Witness ==
    /\ Evaluated
    /\ iter = 2
    /\ ErrorKinds(1) = <<"StackOverflow">>
    /\ Results(1) = <<>>
    /\ Peak(tree, 0).peak = MAX_CALLSTACK_DEPTH
    /\ Results(2) = <<MAX_CALLSTACK_DEPTH>>

(***************************************************************************)
(* Lines that divide by zero, alone and followed by a valid line.          *)
(***************************************************************************)
MaxDivOps == 2

DivLiterals == {0, 2}

RECURSIVE DivTreesWithOps(_)
DivTreesWithOps(n) ==
    IF n = 0 THEN {AstNum(v) : v \in DivLiterals}
    ELSE UNION {{AstOp(type, l, r) : type \in OpTypes, l \in DivTreesWithOps(k),
                                     r \in DivTreesWithOps(n - 1 - k)} : k \in 0..(n - 1)}

ZeroDivisorLines ==
    {ExpressionLine(t) : t \in {x \in UNION {DivTreesWithOps(n) : n \in 1..MaxDivOps} :
                                    Value(x) = <<>>}}

\* valid lines with their values: 2+13*2 and (13-2)/2
ShortFollowReading ==
    { [line |-> Str(<<"2", "+", "1", "3", "*", "2", "nl">>), value |-> 28],
      [line |-> Str(<<"(", "1", "3", "-", "2", ")", "/", "2", "nl">>), value |-> 5] }

\* and the sum of 32 ones, which needs the whole stack
FollowReading ==
    ShortFollowReading
    \cup {[line |-> NestedLine(MAX_CALLSTACK_DEPTH), value |-> MAX_CALLSTACK_DEPTH]}

DivZeroPrograms ==
    {Program(l) : l \in ZeroDivisorLines}
    \cup {Program(l \o f.line) : l \in ZeroDivisorLines, f \in ShortFollowReading}
    \cup {Program(Str(<<"2", "/", "0", "nl">>) \o f.line) : f \in FollowReading}

SpecDivZero == InitWith(DivZeroPrograms \cup SmokePrograms) /\ [][Next]_vars

(***************************************************************************)
(* C5: a line whose evaluation reaches a / with a right operand of value 0 *)
(* fails with DivisionByZero alone, prints no result and leaves the stack  *)
(* empty, and the line that follows it has the outcome it has in a fresh   *)
(* run: a valid line prints its value.                                     *)
(***************************************************************************)
C5_DivisionByZero ==
    /\ (Evaluated /\ Peak(tree, 0).peak <= MAX_CALLSTACK_DEPTH /\ Peak(tree, 0).val = <<>>)
          => /\ ErrorKinds(iter) = <<"DivisionByZero">>
             /\ Results(iter) = <<>>
             /\ callstack_is_empty(callstack_top)
             /\ Failure(iter, "execution_engine") \in {failed[j] : j \in 1..Len(failed)}
    /\ (ReadALine /\ iter >= 2 /\ "DivisionByZero" \in {ErrorKinds(iter - 1)[j] :
                                                          j \in 1..Len(ErrorKinds(iter - 1))})
          => /\ callstack_is_empty(callstack_top)
             /\ Outcome(iter) = FreshOutcome(CurrentLine)
             /\ \A f \in FollowReading :
                   f.line = CurrentLine => Outcome(iter) = [results |-> <<f.value>>,
                                                            errors |-> <<>>]

\* 2/0 has failed and the line after it, which needs the whole stack, has
\* printed its value
C5_Witness ==
    /\ ReadALine
    /\ iter = 2
    /\ InputLine(input, 1) = Str(<<"2", "/", "0", "nl">>)
    /\ ErrorKinds(1) = <<"DivisionByZero">>
    /\ CurrentLine = NestedLine(MAX_CALLSTACK_DEPTH)
    /\ Results(2) = <<MAX_CALLSTACK_DEPTH>>

(***************************************************************************)
(* Lines made of tokens: every sequence of up to MaxToks tokens, a space   *)
(* after each, then the newline.  The byte 255, the char -1, is the one    *)
(* the tokenizer reads as EndOfFile.                                       *)
(***************************************************************************)
MaxToks == 4

TokenChars == {50, 43, 45, 42, 47, 40, 41, EOF_CHAR}

RECURSIVE TokenTexts(_)
TokenTexts(n) ==
    IF n = 0 THEN {<<>>}
    ELSE {<<>>} \cup {<<c, 32>> \o rest : c \in TokenChars, rest \in TokenTexts(n - 1)}

TokenPrograms == {Program(Append(t, 10)) : t \in TokenTexts(MaxToks) \ {<<>>}}

SpecTok == InitWith(TokenPrograms \cup SmokePrograms) /\ [][Next]_vars

IsOperator(type) ==
    type \in {"token_plus", "token_minus", "token_times", "token_divide"}

IsEnd(type) == type \in {"token_end_of_expression", "token_end_of_file"}

\* one token of the pass that finds the first fault of a token sequence: sc
\* holds the place k, the number of open brackets, whether an operand is due
\* and, once the pass has ended, what was expected at k ("ok" at the end of
\* a complete expression)
FaultStep(sc, toks) ==
    LET type == toks[sc.at].type
        next == [sc EXCEPT !.at = @ + 1]
        fault(what) == [sc EXCEPT !.expected = what]
    IN  IF sc.operand_due
        THEN IF type = "token_number" THEN [next EXCEPT !.operand_due = FALSE]
             ELSE IF type = "token_bracket_open" THEN [next EXCEPT !.depth = @ + 1]
             ELSE fault("an integer or (")
        ELSE IF IsOperator(type) THEN [next EXCEPT !.operand_due = TRUE]
        ELSE IF sc.depth > 0
        THEN IF type = "token_bracket_close" THEN [next EXCEPT !.depth = @ - 1]
             ELSE fault("closing )")
        ELSE IF IsEnd(type) THEN fault("ok")
        ELSE fault("end of expression")

RECURSIVE FaultScan(_, _, _)
FaultScan(sc, toks, n) ==
    IF sc.expected # "" \/ n = 0 THEN sc
    ELSE IF n = 1 THEN FaultStep(sc, toks)
    ELSE FaultScan(FaultScan(sc, toks, n \div 2), toks, n - (n \div 2))

\* the first fault of a token sequence that ends with an end token
SyntaxFault(toks) ==
    FaultScan([at |-> 1, depth |-> 0, operand_due |-> TRUE, expected |-> ""], toks, Len(toks))

\* the diagnostic the fault calls for
FaultDiagnostic(toks, f) ==
    IF f.expected = "closing )" THEN [kind |-> "SyntaxError", expected |-> f.expected]
    ELSE [kind |-> "SyntaxError", expected |-> f.expected,
          near |-> LexemeFirstChar(toks[f.at])]

\* this iteration tokenized its line and called the parser on the tokens,
\* which do not begin with EndOfFile
Parsed ==
    /\ LineDone
    /\ Failure(iter, "tokenize") \notin {failed[j] : j \in 1..Len(failed)}
    /\ parser_token_stream # <<>>
    /\ Head(parser_token_stream).type # "token_end_of_file"

(***************************************************************************)
(* C7: a token stream that is no complete expression fails with exactly    *)
(* one diagnostic, the SyntaxError of its first fault (a missing ')', a    *)
(* token after the complete expression that is no end, or a token that is  *)
(* no Number or '(' where an operand is due), prints no result and is      *)
(* never handed to the evaluator; a complete expression parses without a   *)
(* syntax error.  (A stream that begins with EndOfFile is not parsed.)     *)
(***************************************************************************)
C7_SyntaxErrors ==
    /\ Parsed =>
          LET f == SyntaxFault(parser_token_stream)
          IN  IF f.expected = "ok"
              THEN /\ Failure(iter, "parse") \notin {failed[j] : j \in 1..Len(failed)}
                   /\ "SyntaxError" \notin {ErrorKinds(iter)[j] : j \in 1..Len(ErrorKinds(iter))}
              ELSE /\ Errors(iter) = <<FaultDiagnostic(parser_token_stream, f)>>
                   /\ Results(iter) = <<>>
                   /\ Failure(iter, "parse") \in {failed[j] : j \in 1..Len(failed)}
    /\ (pc = "execute" /\ Head(parser_token_stream).type # "token_end_of_file")
          => SyntaxFault(parser_token_stream).expected = "ok"

\* a line with a bracket left open, one with a token after the expression
\* and one with an operand missing has each failed with its own diagnostic
C7_Witness ==
    /\ Parsed
    /\ \E what \in {"closing )", "end of expression", "an integer or ("} :
          /\ SyntaxFault(parser_token_stream).expected = what
          /\ Len(Errors(iter)) = 1
          /\ Errors(iter)[1].expected = what
          /\ Len(parser_token_stream) > 3

(***************************************************************************)
(* Files made of characters: every file of up to MaxChars bytes over a     *)
(* digit, an operator, a character of no token, the space and the newline  *)
(* (so a last line may lack its newline), and lines with an unexpected     *)
(* character that has more than five characters on each side.              *)
(***************************************************************************)
MaxChars == 5

LexChars == {49, 43, 97, 32, 10}

RECURSIVE Texts(_)
Texts(n) ==
    IF n = 0 THEN {<<>>}
    ELSE {<<>>} \cup {<<c>> \o rest : c \in LexChars, rest \in Texts(n - 1)}

LongLexLines ==
    { Str(<<"1", "2", "3", "4", "5", "6", "7", "8", " ", "&", " ", "1", "2", "3", "4",
            "5", "6", "7", "8", "nl">>),
      Str(<<"1", "2", "+", "3", "4", "5", "+", "6", "nl">>) }

LexPrograms == {Program(t) : t \in Texts(MaxChars) \cup LongLexLines}

SpecLex == InitWith(LexPrograms \cup SmokePrograms) /\ [][Next]_vars

\* the places of a line where a maximal run of digits starts, and the run
DigitRunStarts(line) ==
    {i \in 1..Len(line) : isdigit(line[i]) /\ (i = 1 \/ ~isdigit(line[i - 1]))}

DigitRun(line, i) ==
    SubSeq(line, i, CHOOSE e \in i..Len(line) :
                        /\ \A j \in i..e : isdigit(line[j])
                        /\ (e = Len(line) \/ ~isdigit(line[e + 1])))

NthStart(line, k) ==
    CHOOSE i \in DigitRunStarts(line) :
        Cardinality({h \in DigitRunStarts(line) : h < i}) = k - 1

(***************************************************************************)
(* C6: the Number tokens of a tokenized line carry, in order, exactly the  *)
(* maximal runs of digits of the line as their lexemes.                    *)
(***************************************************************************)
C6_ExactLexemes ==
    (pc = "parse" /\ source_file_eof_read = 0) =>
        LET numbers == SelectSeq(stream, LAMBDA t : t.type = "token_number")
        IN  /\ Len(numbers) = Cardinality(DigitRunStarts(CurrentLine))
            /\ \A k \in 1..Len(numbers) :
                  numbers[k].lexeme = DigitRun(CurrentLine, NthStart(CurrentLine, k))

(***************************************************************************)
(* C8: every FAILURE a function returned to main came with a diagnostic    *)
(* written to stderr in the same iteration.                                *)
(***************************************************************************)
C8_NoSilentFailure ==
    \A j \in 1..Len(failed) : \E h \in 1..Len(err) : err[h].iter = failed[j].iter

\* a character that is no whitespace and no part of a token
Unexpected(c) == ~isspace(c) /\ ~isdigit(c) /\ c \notin {43, 45, 42, 47, 40, 41}

Min(a, b) == IF a < b THEN a ELSE b

Max(a, b) == IF a > b THEN a ELSE b

(***************************************************************************)
(* C9: a line with an unexpected character fails with one report for the   *)
(* first such character, at 0-based column i: the snippet is the up to     *)
(* five characters before it, the character, and the up to five characters *)
(* of the line after it (the newline excluded), and the marker line has    *)
(* one marker for each character of the snippet, '^' for the unexpected    *)
(* character and '~' for the others.                                       *)
(***************************************************************************)
C9_LexDiagnostic ==
    (ReadALine /\ \E i \in 1..Len(CurrentLine) : Unexpected(CurrentLine[i])) =>
        LET line == CurrentLine
            i == CHOOSE i \in 1..Len(line) :
                     Unexpected(line[i]) /\ \A j \in 1..(i - 1) : ~Unexpected(line[j])
            before == SubSeq(line, Max(1, i - 5), i - 1)
            after == SubSeq(line, i + 1, Min(i + 5, Len(line) - 1))
        IN  /\ Len(Errors(iter)) = 1
            /\ Errors(iter)[1].kind = "UnexpectedCharacter"
            /\ Errors(iter)[1].column = i - 1
            /\ Errors(iter)[1].before = before
            /\ Errors(iter)[1].fault = line[i]
            /\ Errors(iter)[1].after = after
            /\ Errors(iter)[1].markers =
                  [k \in 1..(Len(before) + 1 + Len(after)) |->
                      IF k = Len(before) + 1 THEN "^" ELSE "~"]

(***************************************************************************)
(* C10: the read that meets the end of the file is tokenized into the one  *)
(* token EndOfFile, parses to no AST, writes nothing, and ends the loop.   *)
(***************************************************************************)
C10_EndOfStream ==
    /\ (source_file_eof_read = 1 /\ pc = "parse")
          => stream = <<Token("token_end_of_file", <<>>)>>
    /\ (source_file_eof_read = 1 /\ pc \in {"loop", "done"})
          => /\ tree = NULL
             /\ Outcome(iter) = [results |-> <<>>, errors |-> <<>>]
             /\ \A j \in 1..Len(failed) : failed[j].iter # iter
    /\ (source_file_eof_read = 1 /\ pc = "loop") => ~ENABLED ReadLine

(***************************************************************************)
(* C11: when parsing a line has failed with a SyntaxError and control is   *)
(* back in the driver, every AST node allocated by that parse has been     *)
(* released: no AST node is live then, and none is live when the next line *)
(* has been read.                                                          *)
(***************************************************************************)
C11_NoAstLeak ==
    /\ (LineDone /\ Failure(iter, "parse") \in {failed[j] : j \in 1..Len(failed)})
          => ast_live = 0
    /\ pc = "tokenize" => ast_live = 0

=============================================================================
